---------------------------- MODULE Spec2Model ----------------------------
(***************************************************************************)
(* A model of serpent/serpent.py, the command-line entry point of          *)
(* SerpentAI: execute() and the handlers launch, play, record, capture,    *)
(* generate and train, with the game instance they drive, the plugin       *)
(* directory they write to and the training they hand off to.              *)
(*                                                                         *)
(* Text is modelled as sequences of atoms (short strings): a command-line  *)
(* token, a name and the contents of a file are all sequences, so that     *)
(* str.replace, int() and float() are computed and not assumed.            *)
(***************************************************************************)
EXTENDS Integers, Sequences, FiniteSets, TLC

(***************************************************************************)
(* Bounds of the model.                                                    *)
(***************************************************************************)
\* Number of process invocations (commands run one after the other on the
\* same plugin directory).
MaxRuns == 2
\* Number of command-line arguments tried beyond a handler's last parameter.
MaxSurplusArgs == 1
\* Number of calls made on one game instance when further launches are tried.
MaxCalls == 3

(***************************************************************************)
(* Program constants.                                                      *)
(***************************************************************************)
DefaultFrameCount == 4
DefaultFrameSpacing == 4
DefaultInterval == 1
DefaultEpochs == 3
\* Stands for "no upper limit" of a handler taking *args.
Unlimited == 99

(***************************************************************************)
(* Values.  A Python value handed to a handler or to the game instance.    *)
(* Every value has the same shape so that any two can be compared:         *)
(*   tag "str"   : the string s (a sequence of atoms)                      *)
(*   tag "int"   : the integer n                                           *)
(*   tag "float" : the number n / 10^scale                                 *)
(*   tag "bool"  : n = 1 for True, 0 for False                             *)
(*   tag "none"  : None                                                    *)
(***************************************************************************)
Str(t) == [tag |-> "str", s |-> t, n |-> 0, scale |-> 0]
IntV(k) == [tag |-> "int", s |-> <<>>, n |-> k, scale |-> 0]
FloatV(k, sc) == [tag |-> "float", s |-> <<>>, n |-> k, scale |-> sc]
BoolV(b) == [tag |-> "bool", s |-> <<>>, n |-> IF b THEN 1 ELSE 0, scale |-> 0]
None == [tag |-> "none", s |-> <<>>, n |-> 0, scale |-> 0]

(***************************************************************************)
(* Errors.  type is the Python exception class, msg the message with its   *)
(* interpolated value taken out, arg the interpolated value.               *)
(***************************************************************************)
Err(type, msg, arg) == [type |-> type, msg |-> msg, arg |-> arg]
NoError == Err("none", "", <<>>)

(***************************************************************************)
(* int(x) and float(x).                                                    *)
(***************************************************************************)
Digits == {"0", "1", "2", "3", "4", "5", "6", "7", "8", "9"}

DigitValue(c) ==
    CASE c = "0" -> 0 [] c = "1" -> 1 [] c = "2" -> 2 [] c = "3" -> 3
      [] c = "4" -> 4 [] c = "5" -> 5 [] c = "6" -> 6 [] c = "7" -> 7
      [] c = "8" -> 8 [] c = "9" -> 9

AllDigits(t) == \A i \in 1..Len(t) : t[i] \in Digits

RECURSIVE DigitsValue(_)
DigitsValue(t) ==
    IF t = <<>> THEN 0
    ELSE 10 * DigitsValue(SubSeq(t, 1, Len(t) - 1)) + DigitValue(t[Len(t)])

HasSign(t) == Len(t) > 0 /\ t[1] \in {"+", "-"}
Unsigned(t) == IF HasSign(t) THEN Tail(t) ELSE t
Signed(t, k) == IF HasSign(t) /\ t[1] = "-" THEN 0 - k ELSE k

\* A string int() accepts: an optional sign and at least one decimal digit.
IsIntLiteral(t) == Unsigned(t) # <<>> /\ AllDigits(Unsigned(t))

IntLiteralValue(t) == Signed(t, DigitsValue(Unsigned(t)))

\* int(v): the value, or the ValueError int() raises on a string that is no
\* integer literal.  The message carries the string, not a parameter name.
ParseInt(v) ==
    CASE v.tag = "int" -> [ok |-> TRUE, val |-> IntV(v.n), err |-> NoError]
      [] v.tag = "str" /\ IsIntLiteral(v.s) ->
            [ok |-> TRUE, val |-> IntV(IntLiteralValue(v.s)), err |-> NoError]
      [] v.tag = "str" /\ ~IsIntLiteral(v.s) ->
            [ok |-> FALSE, val |-> None,
             err |-> Err("ValueError", "invalid literal for int() with base 10", v.s)]
      [] OTHER ->
            [ok |-> FALSE, val |-> None,
             err |-> Err("TypeError", "int() argument must be a string or a number", <<>>)]

\* The position of the decimal point of t, or 0.
PointAt(t) ==
    IF \E i \in 1..Len(t) : t[i] = "." THEN CHOOSE i \in 1..Len(t) : t[i] = "."
    ELSE 0

IntPart(t) == IF PointAt(t) = 0 THEN t ELSE SubSeq(t, 1, PointAt(t) - 1)
FracPart(t) == IF PointAt(t) = 0 THEN <<>> ELSE SubSeq(t, PointAt(t) + 1, Len(t))

\* A string float() accepts: an optional sign, digits with at most one decimal
\* point among them, and at least one digit.
IsFloatLiteral(t) ==
    /\ AllDigits(IntPart(Unsigned(t)))
    /\ AllDigits(FracPart(Unsigned(t)))
    /\ Len(IntPart(Unsigned(t))) + Len(FracPart(Unsigned(t))) > 0

RECURSIVE StripZeros(_)
StripZeros(t) ==
    IF t # <<>> /\ t[Len(t)] = "0" THEN StripZeros(SubSeq(t, 1, Len(t) - 1)) ELSE t

\* The number a float literal denotes, as mantissa and decimal scale, with the
\* trailing zeros of the fraction dropped (1.50 and 1.5 are the same float).
FloatLiteralValue(t) ==
    LET ip == IntPart(Unsigned(t))
        fp == StripZeros(FracPart(Unsigned(t)))
    IN  FloatV(Signed(t, DigitsValue(ip \o fp)), Len(fp))

\* float(v).
ParseFloat(v) ==
    CASE v.tag = "int" -> [ok |-> TRUE, val |-> FloatV(v.n, 0), err |-> NoError]
      [] v.tag = "float" -> [ok |-> TRUE, val |-> v, err |-> NoError]
      [] v.tag = "str" /\ IsFloatLiteral(v.s) ->
            [ok |-> TRUE, val |-> FloatLiteralValue(v.s), err |-> NoError]
      [] v.tag = "str" /\ ~IsFloatLiteral(v.s) ->
            [ok |-> FALSE, val |-> None,
             err |-> Err("ValueError", "could not convert string to float", v.s)]
      [] OTHER ->
            [ok |-> FALSE, val |-> None,
             err |-> Err("TypeError", "float() argument must be a string or a number", <<>>)]

(***************************************************************************)
(* The commands.                                                           *)
(***************************************************************************)
valid_commands ==
    { <<"setup">>, <<"update">>, <<"modules">>, <<"grab_frames">>, <<"launch">>,
      <<"play">>, <<"record">>, <<"generate">>, <<"activate">>, <<"deactivate">>,
      <<"plugins">>, <<"train">>, <<"capture">>, <<"visual_debugger">>,
      <<"window_name">>, <<"record_inputs">>, <<"dashboard">>,
      <<"object_recognition">> }

\* The handler of a command: command_function_mapping maps each name to the
\* function of the same name.
command_function_mapping(command) == command[1]

\* The least and greatest number of positional arguments of each handler.
MinArgs(h) ==
    CASE h \in {"launch", "generate", "train", "activate", "deactivate"} -> 1
      [] h \in {"play", "record", "capture", "object_recognition"} -> 2
      [] h = "grab_frames" -> 4
      [] OTHER -> 0

MaxArgs(h) ==
    CASE h \in {"launch", "generate", "activate", "deactivate", "setup"} -> 1
      [] h \in {"dashboard", "object_recognition"} -> 2
      [] h = "play" -> 3
      [] h = "record" -> 4
      [] h \in {"capture", "grab_frames"} -> 5
      [] h \in {"train", "visual_debugger"} -> Unlimited
      [] OTHER -> 0

\* The handlers modelled step by step; the others are a single opaque step.
GameHandlers == {"launch", "play", "record", "capture"}
ModelledHandlers == GameHandlers \cup {"generate", "train"}


(***************************************************************************)
(* The command lines tried.  sys.argv[1:] is a sequence of tokens.         *)
(***************************************************************************)
\* Game names given on the command line: Foo and Pong are installed, Bar is not.
GameNames == { <<"Foo">>, <<"Pong">>, <<"Bar">> }
\* Game agent names: SerpentFooGameAgent is installed, the other is not.
GameAgentNames == { <<"SerpentFooGameAgent">>, <<"SerpentGhostGameAgent">> }
\* Tokens given where a handler converts with int() or float().
NumberTokens ==
    { <<"1", "0">>, <<"2">>, <<"0", ".", "5">>, <<"-", "3">>, <<"a", "b", "c">>, <<>> }
CaptureTypes == { <<"frame">>, <<"context">>, <<"region">>, <<"bogus">> }
ExtraTokens == { <<"ctx1">>, <<"region1">> }
OtherTokens == { <<"x">> }
TrainingTypes == { <<"context">>, <<"object">>, <<"bogus">> }
\* Tokens given as epochs of train context (as name of train object).
EpochTokens == { <<"1", "0">>, <<"a", "b", "c">>, <<"0", ".", "5">> }
\* Tokens given as validate and autosave (as algorithm and class of train object).
FlagTokens == { <<"True">>, <<"False">>, <<"true">> }

\* The tokens tried at position i of handler h's arguments.
Pool(h, i) ==
    CASE h = "launch" /\ i = 1 -> GameNames
      [] h = "play" /\ i = 1 -> GameNames
      [] h = "play" /\ i = 2 -> GameAgentNames
      [] h = "record" /\ i = 1 -> GameNames
      [] h = "record" /\ i = 2 -> GameAgentNames
      [] h = "record" /\ i \in {3, 4} -> NumberTokens
      [] h = "capture" /\ i = 1 -> CaptureTypes
      [] h = "capture" /\ i = 2 -> GameNames
      [] h = "capture" /\ i = 3 -> NumberTokens
      [] h = "capture" /\ i \in {4, 5} -> ExtraTokens
      [] h = "generate" /\ i = 1 -> { <<"game">>, <<"game_agent">>, <<"agent">> }
      [] h = "train" /\ i = 1 -> TrainingTypes
      [] h = "train" /\ i = 2 -> EpochTokens
      [] h = "train" /\ i \in {3, 4} -> FlagTokens
      [] OTHER -> OtherTokens

RECURSIVE ArgLists(_, _, _)
ArgLists(h, i, n) ==
    IF i > n THEN { <<>> }
    ELSE { <<t>> \o rest : t \in Pool(h, i), rest \in ArgLists(h, i + 1, n) }

\* The argument counts tried for handler h: from none to MaxSurplusArgs more
\* than it takes.
ArgCounts(h) ==
    0 .. (CASE h = "train" -> MinArgs(h) + Len(<<"epochs", "validate", "autosave">>)
            [] h # "train" /\ h \in ModelledHandlers -> MaxArgs(h)
            [] OTHER -> MinArgs(h)) + MaxSurplusArgs

UnknownCommands == { <<"bogus">>, <<"Play">>, <<"plays">>, <<>> }
HelpFlags == { <<"-h">>, <<"--help">> }

ArgvSet ==
    { <<>> }
    \cup { <<c>> \o rest : c \in HelpFlags \cup UnknownCommands,
                           rest \in { <<>>, <<<<"Foo">>>> } }
    \cup UNION { { <<c>> \o args :
                     args \in UNION { ArgLists(c[1], 1, n) : n \in ArgCounts(c[1]) } } :
                 c \in valid_commands }

(***************************************************************************)
(* The plugin registry (offshoot.discover), an opaque lookup by class name.*)
(***************************************************************************)
InstalledGames == { <<"Serpent", "Foo", "Game">>, <<"Serpent", "Pong", "Game">> }
InstalledGameAgents == { <<"SerpentFooGameAgent">> }

\* offshoot.discover("Game").get(name) is not None
DiscoverGame(game_class_name) == game_class_name \in InstalledGames
\* offshoot.discover("GameAgent", selection=name).get(name) is not None
DiscoverGameAgent(game_agent_name) == game_agent_name \in InstalledGameAgents

(***************************************************************************)
(* The game instance, of a class of serpent/game.py.  Its lifecycle is     *)
(* the one the specification gives a GameHandle.                           *)
(***************************************************************************)
LifecycleStates ==
    {"Uninitialized", "LaunchedDryRun", "LaunchedLive", "Playing", "Terminated"}
Launched == {"LaunchedDryRun", "LaunchedLive"}

NoGame == [name |-> <<>>, lifecycle_state |-> "NoHandle"]
\* game_class(): a new instance.
NewGame(game_class_name) == [name |-> game_class_name, lifecycle_state |-> "Uninitialized"]

\* launch() without dry_run is a live launch.
IsDryRun(kwargs) == "dry_run" \in DOMAIN kwargs /\ kwargs["dry_run"] = BoolV(TRUE)

\* game.launch(**kwargs): the instance after the call and what the call raised.
\* succeeds is the outcome of the launch itself, which the core does not decide.
GameLaunch(g, kwargs, succeeds) ==
    CASE g.lifecycle_state # "Uninitialized" ->
            [game |-> g, err |-> Err("InvalidLifecycleTransition", "launch", <<>>)]
      [] g.lifecycle_state = "Uninitialized" /\ ~succeeds ->
            [game |-> g, err |-> Err("LaunchFailure", "launch", <<>>)]
      [] OTHER ->
            [game |-> [g EXCEPT !.lifecycle_state =
                          IF IsDryRun(kwargs) THEN "LaunchedDryRun" ELSE "LaunchedLive"],
             err |-> NoError]

\* game.play(**kwargs).
GamePlay(g, kwargs, succeeds) ==
    CASE g.lifecycle_state \notin Launched ->
            [game |-> g, err |-> Err("InvalidLifecycleTransition", "play", <<>>)]
      [] g.lifecycle_state \in Launched /\ ~succeeds ->
            [game |-> [g EXCEPT !.lifecycle_state = "Playing"],
             err |-> Err("PlayFailure", "play", <<>>)]
      [] OTHER ->
            [game |-> [g EXCEPT !.lifecycle_state = "Playing"], err |-> NoError]

\* A call on the game instance g with result r, as recorded in calls: what was
\* called, what it raised, and the instance's lifecycle_state before and after.
Call(op, kwargs, g, r) ==
    [op |-> op, kwargs |-> kwargs, ok |-> r.err = NoError, err |-> r.err,
     before |-> g.lifecycle_state, after |-> r.game.lifecycle_state]

(***************************************************************************)
(* The state.                                                              *)
(***************************************************************************)
VARIABLES
    run,        \* the number of this process invocation
    argv,       \* sys.argv[1:]
    pc,         \* where the invocation is
    handler,    \* the handler execute() called, or "none"
    params,     \* the handler's parameters, by name
    game,       \* the game instance initialize_game returned, or NoGame
    calls,      \* the calls made on the game instance, in order
    error,      \* the exception that ended the invocation, or NoError
    helped,     \* whether executable_help() was called
    plugins,    \* the plugin directory: each plugin's directory name and files
    file_ops,   \* the file operations of this invocation, in order
    subprocess_calls,   \* the command lines this invocation ran as subprocesses
    sigint_handler,     \* the handler of SIGINT: "default", or "on_interrupt"
    trainer     \* the calls made on the training collaborator, in order

vars == <<run, argv, pc, handler, params, game, calls, error, helped,
          plugins, file_ops, subprocess_calls, sigint_handler, trainer>>

\* What only the train handlers change.
train_vars == <<sigint_handler, trainer>>

\* What the handlers of a game leave alone.
scaffold_vars == <<plugins, file_ops, subprocess_calls>>

NoParams == [x \in {} |-> None]
\* An empty plugin directory.
NoPlugins == [d \in {} |-> <<>>]

Init ==
    /\ run = 1
    /\ argv \in ArgvSet
    /\ pc = "execute"
    /\ handler = "none"
    /\ params = NoParams
    /\ game = NoGame
    /\ calls = <<>>
    /\ error = NoError
    /\ helped = FALSE
    /\ plugins = NoPlugins
    /\ file_ops = <<>>
    /\ subprocess_calls = <<>>
    /\ sigint_handler = "default"
    /\ trainer = <<>>

\* An exception leaves the handler and execute(): the invocation ends.
Raise(e) == pc' = "failed" /\ error' = e

(***************************************************************************)
(* Binding of the positional arguments to a handler's parameters.          *)
(***************************************************************************)
ParamNames(h) ==
    CASE h = "launch" -> <<"game_name">>
      [] h = "play" -> <<"game_name", "game_agent_name", "frame_handler">>
      [] h = "record" -> <<"game_name", "game_agent_name", "frame_count", "frame_spacing">>
      [] h = "capture" -> <<"capture_type", "game_name", "interval", "extra", "extra_2">>
      [] h = "generate" -> <<"plugin_type">>
      [] h = "train" -> <<"training_type">>
      [] h = "train_context" -> <<"epochs", "validate", "autosave">>
      [] h = "train_object" -> <<"name", "algorithm">>
      [] OTHER -> <<>>

Default(h, name) ==
    CASE h = "record" /\ name = "frame_count" -> IntV(DefaultFrameCount)
      [] h = "record" /\ name = "frame_spacing" -> IntV(DefaultFrameSpacing)
      [] h = "capture" /\ name = "interval" -> IntV(DefaultInterval)
      [] h = "train_context" /\ name = "epochs" -> IntV(DefaultEpochs)
      [] h = "train_context" /\ name = "validate" -> BoolV(TRUE)
      [] h = "train_context" /\ name = "autosave" -> BoolV(FALSE)
      [] OTHER -> None

Bind(h, args) ==
    LET names == ParamNames(h)
    IN  [name \in {names[i] : i \in 1..Len(names)} |->
            LET i == CHOOSE j \in 1..Len(names) : names[j] = name
            IN  IF i <= Len(args) THEN Str(args[i]) ELSE Default(h, name)]

(***************************************************************************)
(* execute()                                                               *)
(***************************************************************************)
\* The command not checked against valid_commands.
ExecuteNoCheck ==
    /\ pc = "execute"
    /\ UNCHANGED <<run, argv, game, calls, scaffold_vars, train_vars>>
    /\ IF argv = <<>> \/ argv[1] \in HelpFlags
       THEN helped' = TRUE /\ pc' = "done" /\ UNCHANGED <<handler, params, error>>
       ELSE LET command == argv[1]
                args == Tail(argv)
                h == IF command = <<>> THEN "" ELSE command_function_mapping(command)
            IN  /\ handler' = h
                /\ params' = Bind(h, args)
                /\ pc' = IF h \in GameHandlers THEN "initialize_game"
                         ELSE IF h \in {"generate", "train"} THEN h ELSE "other"
                /\ UNCHANGED <<error, helped>>

Execute ==
    /\ pc = "execute"
    /\ UNCHANGED <<run, argv, game, calls, scaffold_vars, train_vars>>
    /\ IF argv = <<>> \/ argv[1] \in HelpFlags
       THEN helped' = TRUE /\ pc' = "done" /\ UNCHANGED <<handler, params, error>>
       ELSE LET command == argv[1]
                args == Tail(argv)
            IN  IF command \notin valid_commands
                THEN /\ Raise(Err("Exception", "is not a valid Serpent command.", command))
                     /\ UNCHANGED <<handler, params, helped>>
                ELSE LET h == command_function_mapping(command)
                     IN  IF Len(args) < MinArgs(h) \/ Len(args) > MaxArgs(h)
                         THEN \* the call itself raises: the handler's body never runs
                              /\ Raise(Err("TypeError", "positional arguments", command))
                              /\ UNCHANGED <<handler, params, helped>>
                         ELSE /\ handler' = h
                              /\ params' = Bind(h, args)
                              /\ pc' = IF h \in GameHandlers THEN "initialize_game"
                                       ELSE IF h \in {"generate", "train"} THEN h ELSE "other"
                              /\ UNCHANGED <<error, helped>>

\* A handler this model does not follow: it runs and ends.
OtherHandler ==
    /\ pc = "other"
    /\ pc' = "done"
    /\ UNCHANGED <<run, argv, handler, params, game, calls, error, helped, scaffold_vars, train_vars>>

(***************************************************************************)
(* initialize_game(game_name)                                              *)
(***************************************************************************)
GameClassName(game_name) == <<"Serpent">> \o game_name \o <<"Game">>

\* The instance constructed whether or not the class was found.
InitializeGameNoCheck ==
    /\ pc = "initialize_game"
    /\ game' = NewGame(GameClassName(params["game_name"].s))
    /\ pc' = "launch"
    /\ UNCHANGED <<run, argv, handler, params, calls, error, helped, scaffold_vars, train_vars>>

InitializeGame ==
    /\ pc = "initialize_game"
    /\ LET game_name == params["game_name"].s
           game_class_name == GameClassName(game_name)
       IN  IF ~DiscoverGame(game_class_name)
           THEN /\ Raise(Err("Exception",
                             "Game wasn't found. Make sure the plugin is installed.",
                             game_name))
                /\ UNCHANGED game
           ELSE /\ game' = NewGame(game_class_name)
                /\ pc' = "launch"
                /\ UNCHANGED error
    /\ UNCHANGED <<run, argv, handler, params, calls, helped, scaffold_vars, train_vars>>

(***************************************************************************)
(* launch(game_name): game.launch()                                        *)
(***************************************************************************)
NoKwargs == [x \in {} |-> None]

\* A call on the instance: the instance changes as the call says, the call is
\* recorded, and what it raised ends the invocation.
CallGame(op, kwargs, r, next) ==
    /\ game' = r.game
    /\ calls' = Append(calls, Call(op, kwargs, game, r))
    /\ IF r.err = NoError THEN pc' = next /\ UNCHANGED error ELSE Raise(r.err)

LaunchLive ==
    /\ pc = "launch"
    /\ handler = "launch"
    /\ \E succeeds \in BOOLEAN :
          CallGame("launch", NoKwargs, GameLaunch(game, NoKwargs, succeeds), "done")
    /\ UNCHANGED <<run, argv, handler, params, helped, scaffold_vars, train_vars>>

(***************************************************************************)
(* play, record, capture: game.launch(dry_run=True)                        *)
(***************************************************************************)
DryRunKwargs == [x \in {"dry_run"} |-> BoolV(TRUE)]

\* The launch forgotten.
LaunchSkipped ==
    /\ pc = "launch"
    /\ handler \in {"play", "record", "capture"}
    /\ pc' = handler
    /\ UNCHANGED <<run, argv, handler, params, game, calls, error, helped, scaffold_vars, train_vars>>

\* A live launch where a dry run is meant.
LaunchDryRunAsLive ==
    /\ pc = "launch"
    /\ handler \in {"play", "record", "capture"}
    /\ \E succeeds \in BOOLEAN :
          CallGame("launch", NoKwargs, GameLaunch(game, NoKwargs, succeeds), handler)
    /\ UNCHANGED <<run, argv, handler, params, helped, scaffold_vars, train_vars>>

LaunchDryRun ==
    /\ pc = "launch"
    /\ handler \in {"play", "record", "capture"}
    /\ \E succeeds \in BOOLEAN :
          CallGame("launch", DryRunKwargs, GameLaunch(game, DryRunKwargs, succeeds), handler)
    /\ UNCHANGED <<run, argv, handler, params, helped, scaffold_vars, train_vars>>

(***************************************************************************)
(* play(game_name, game_agent_name, frame_handler=None), after the launch  *)
(***************************************************************************)
\* play without the lookup of the game agent.
PlayNoLookup ==
    /\ pc = "play"
    /\ LET kwargs == [game_agent_class_name |-> Str(params["game_agent_name"].s),
                      frame_handler |-> params["frame_handler"]]
       IN  \E succeeds \in BOOLEAN :
              CallGame("play", kwargs, GamePlay(game, kwargs, succeeds), "done")
    /\ UNCHANGED <<run, argv, handler, params, helped, scaffold_vars, train_vars>>

Play ==
    /\ pc = "play"
    /\ LET game_agent_name == params["game_agent_name"].s
           kwargs == [game_agent_class_name |-> Str(game_agent_name),
                      frame_handler |-> params["frame_handler"]]
       IN  IF ~DiscoverGameAgent(game_agent_name)
           THEN /\ Raise(Err("Exception",
                             "Game Agent wasn't found. Make sure the plugin is installed.",
                             game_agent_name))
                /\ UNCHANGED <<game, calls>>
           ELSE \E succeeds \in BOOLEAN :
                   CallGame("play", kwargs, GamePlay(game, kwargs, succeeds), "done")
    /\ UNCHANGED <<run, argv, handler, params, helped, scaffold_vars, train_vars>>

(***************************************************************************)
(* record(game_name, game_agent_name, frame_count=4, frame_spacing=4),     *)
(* after the launch.  The arguments of game.play are evaluated in order,   *)
(* before the call.                                                        *)
(***************************************************************************)
RecordKwargs(game_agent_name, frame_count, frame_spacing) ==
    [game_agent_class_name |-> Str(game_agent_name),
     frame_handler |-> Str(<<"RECORD">>),
     frame_count |-> frame_count,
     frame_spacing |-> frame_spacing]

Record ==
    /\ pc = "record"
    /\ LET frame_count == ParseInt(params["frame_count"])
           frame_spacing == ParseInt(params["frame_spacing"])
           kwargs == RecordKwargs(params["game_agent_name"].s,
                                  frame_count.val, frame_spacing.val)
       IN  CASE ~frame_count.ok ->
                   Raise(frame_count.err) /\ UNCHANGED <<game, calls>>
             [] frame_count.ok /\ ~frame_spacing.ok ->
                   Raise(frame_spacing.err) /\ UNCHANGED <<game, calls>>
             [] OTHER ->
                   \E succeeds \in BOOLEAN :
                      CallGame("play", kwargs, GamePlay(game, kwargs, succeeds), "done")
    /\ UNCHANGED <<run, argv, handler, params, helped, scaffold_vars, train_vars>>

(***************************************************************************)
(* capture(capture_type, game_name, interval=1, extra=None, extra_2=None), *)
(* after the launch                                                        *)
(***************************************************************************)
capture_types == { <<"frame">>, <<"context">>, <<"region">> }

\* The keyword arguments of the game.play call of each capture type.
CaptureKwargs(capture_type, interval, extra, extra_2) ==
    CASE capture_type = <<"frame">> ->
            [frame_handler |-> Str(<<"COLLECT_FRAMES">>), interval |-> interval]
      [] capture_type = <<"context">> ->
            [frame_handler |-> Str(<<"COLLECT_FRAMES_FOR_CONTEXT">>), interval |-> interval,
             context |-> extra, screen_region |-> extra_2]
      [] capture_type = <<"region">> ->
            [frame_handler |-> Str(<<"COLLECT_FRAME_REGIONS">>), interval |-> interval,
             region |-> extra]

\* The capture type not checked: no branch is taken and the handler returns.
CaptureTypeUnchecked ==
    /\ pc = "capture"
    /\ LET capture_type == params["capture_type"].s
           interval == ParseFloat(params["interval"])
           kwargs == CaptureKwargs(capture_type, interval.val,
                                   params["extra"], params["extra_2"])
       IN  CASE capture_type \notin capture_types ->
                   pc' = "done" /\ UNCHANGED <<game, calls, error>>
             [] capture_type \in capture_types /\ ~interval.ok ->
                   Raise(interval.err) /\ UNCHANGED <<game, calls>>
             [] OTHER ->
                   \E succeeds \in BOOLEAN :
                      CallGame("play", kwargs, GamePlay(game, kwargs, succeeds), "done")
    /\ UNCHANGED <<run, argv, handler, params, helped, scaffold_vars, train_vars>>

Capture ==
    /\ pc = "capture"
    /\ LET capture_type == params["capture_type"].s
           interval == ParseFloat(params["interval"])
           kwargs == CaptureKwargs(capture_type, interval.val,
                                   params["extra"], params["extra_2"])
       IN  CASE capture_type \notin capture_types ->
                   /\ Raise(Err("Exception", "Invalid capture command.", <<>>))
                   /\ UNCHANGED <<game, calls>>
             [] capture_type \in capture_types /\ ~interval.ok ->
                   Raise(interval.err) /\ UNCHANGED <<game, calls>>
             [] OTHER ->
                   \E succeeds \in BOOLEAN :
                      CallGame("play", kwargs, GamePlay(game, kwargs, succeeds), "done")
    /\ UNCHANGED <<run, argv, handler, params, helped, scaffold_vars, train_vars>>

(***************************************************************************)
(* Text rewriting: str.replace(old, new) replaces every occurrence of old, *)
(* found from the left and not overlapping.                                *)
(***************************************************************************)
RECURSIVE Replace(_, _, _)
Replace(contents, old, new) ==
    IF Len(contents) < Len(old) THEN contents
    ELSE IF SubSeq(contents, 1, Len(old)) = old
         THEN new \o Replace(SubSeq(contents, Len(old) + 1, Len(contents)), old, new)
         ELSE <<contents[1]>> \o Replace(Tail(contents), old, new)

\* old in contents
Contains(contents, old) ==
    \E i \in 1..(Len(contents) - Len(old) + 1) :
        SubSeq(contents, i, i + Len(old) - 1) = old

(***************************************************************************)
(* The templates copied by generate: templates/SerpentGamePlugin and       *)
(* templates/SerpentGameAgentPlugin.  A tree maps each file's path to its  *)
(* contents.                                                               *)
(***************************************************************************)
NL == "\n"
ImportWebBrowserLine ==
    <<"from serpent.game_launchers.web_browser_game_launcher import WebBrowser">>
PlatformLine(platform) == <<"kwargs[\"platform\"] = \"">> \o platform \o <<"\"">>
AppIdLine == <<"kwargs[\"app_id\"] = \"APP_ID\"">>
AppArgsLine == <<"kwargs[\"app_args\"] = None">>
ExecutablePathLine == <<"kwargs[\"executable_path\"] = \"EXECUTABLE_PATH\"">>
UrlLine == <<"kwargs[\"url\"] = \"URL\"">>
BrowserLine == <<"kwargs[\"browser\"] = WebBrowser.DEFAULT">>

PluginFile == <<"plugin.py">>
GameFile(game_name) ==
    IF game_name = <<>> THEN <<"files/", "serpent_", "game", ".py">>
    ELSE <<"files/", "serpent_">> \o game_name \o <<"_", "game", ".py">>
ApiFile == <<"files/api/api.py">>
GameAgentFile(game_agent_name) ==
    IF game_agent_name = <<>> THEN <<"files/", "serpent_", "game", "_agent", ".py">>
    ELSE <<"files/", "serpent_">> \o game_agent_name \o <<"_", "game", "_agent", ".py">>

GamePluginTemplate ==
    (PluginFile :>
        <<"class ", "Serpent", "Game", "Plugin", "(offshoot.Plugin):", NL,
          "name = \"", "Serpent", "Game", "Plugin", "\"", NL,
          "files = [{\"path\": \"", "serpent_", "game", ".py", "\", \"pluggable\": \"Game\"}]", NL>>)
    @@ (GameFile(<<>>) :>
        <<"from .api.api import ", "My", "Game", "API", NL>>
        \o ImportWebBrowserLine \o <<NL>>
        \o <<"class ", "Serpent", "Game", "(Game, metaclass=Singleton):", NL>>
        \o PlatformLine(<<"PLATFORM">>) \o <<NL>>
        \o <<"kwargs[\"window_name\"] = \"WINDOW_NAME\"", NL>>
        \o AppIdLine \o <<NL>>
        \o AppArgsLine \o <<NL>>
        \o ExecutablePathLine \o <<NL>>
        \o UrlLine \o <<NL>>
        \o BrowserLine \o <<NL>>
        \o <<"self.api_class = ", "My", "Game", "API", NL>>)
    @@ (ApiFile :>
        <<"class ", "My", "Game", "API", "(GameAPI):", NL>>)

GameAgentPluginTemplate ==
    (PluginFile :>
        <<"class ", "Serpent", "Game", "Agent", "Plugin", "(offshoot.Plugin):", NL,
          "name = \"", "Serpent", "Game", "Agent", "Plugin", "\"", NL,
          "files = [{\"path\": \"", "serpent_", "game", "_agent", ".py",
          "\", \"pluggable\": \"GameAgent\"}]", NL>>)
    @@ (GameAgentFile(<<>>) :>
        <<"class ", "Serpent", "Game", "Agent", "(GameAgent):", NL>>)

(***************************************************************************)
(* prepare_game_plugin(game_name, game_platform)                           *)
(***************************************************************************)
game_platforms == { <<"steam">>, <<"executable">>, <<"web_browser">> }

\* The url line left in for steam and executable.
StrippedLinesKeepingUrl(game_platform) ==
    CASE game_platform = <<"steam">> ->
            <<ImportWebBrowserLine, ExecutablePathLine, BrowserLine>>
      [] game_platform = <<"executable">> ->
            <<ImportWebBrowserLine, AppIdLine, AppArgsLine, BrowserLine>>
      [] game_platform = <<"web_browser">> ->
            <<AppIdLine, AppArgsLine, ExecutablePathLine>>
      [] OTHER -> <<>>

\* The lines replaced by "" when the platform is game_platform, in order.
StrippedLines(game_platform) ==
    CASE game_platform = <<"steam">> ->
            <<ImportWebBrowserLine, ExecutablePathLine, UrlLine, BrowserLine>>
      [] game_platform = <<"executable">> ->
            <<ImportWebBrowserLine, AppIdLine, AppArgsLine, UrlLine, BrowserLine>>
      [] game_platform = <<"web_browser">> ->
            <<AppIdLine, AppArgsLine, ExecutablePathLine>>
      [] OTHER -> <<>>

RECURSIVE ReplaceAll(_, _)
\* contents.replace(line, "") for each of lines, in order
ReplaceAll(contents, lines) ==
    IF lines = <<>> THEN contents
    ELSE ReplaceAll(Replace(contents, Head(lines), <<>>), Tail(lines))

\* The platform branch: nothing is rewritten for a platform that is none of
\* the three.
RewritePlatform(contents, game_platform) ==
    IF game_platform \in game_platforms
    THEN ReplaceAll(Replace(contents, <<"PLATFORM">>, game_platform),
                    StrippedLines(game_platform))
    ELSE contents

GamePluginPath(game_name) == <<"Serpent">> \o game_name \o <<"Game", "Plugin">>

\* plugin.py of the new game plugin
GamePluginDefinition(contents, game_name) ==
    Replace(Replace(contents,
                    <<"Serpent", "Game", "Plugin">>, GamePluginPath(game_name)),
            <<"serpent_", "game", ".py">>,
            <<"serpent_">> \o game_name \o <<"_", "game", ".py">>)

\* files/serpent_<game_name>_game.py of the new game plugin
GameContents(contents, game_name, game_platform) ==
    RewritePlatform(
        Replace(Replace(contents, <<"Serpent", "Game">>,
                        <<"Serpent">> \o game_name \o <<"Game">>),
                <<"My", "Game", "API">>, game_name \o <<"API">>),
        game_platform)

\* files/api/api.py of the new game plugin
ApiContents(contents, game_name) ==
    Replace(contents, <<"My", "Game", "API">>, game_name \o <<"API">>)

\* The tree prepare_game_plugin leaves at the destination.
GamePluginTree(game_name, game_platform) ==
    (PluginFile :> GamePluginDefinition(GamePluginTemplate[PluginFile], game_name))
    @@ (GameFile(game_name) :>
            GameContents(GamePluginTemplate[GameFile(<<>>)], game_name, game_platform))
    @@ (ApiFile :> ApiContents(GamePluginTemplate[ApiFile], game_name))

FileOp(op, directory, file) == [op |-> op, directory |-> directory, file |-> file]

\* The copy made over a destination that is there already.
CopyTreeOntoExisting(destination, tree, file_operations) ==
    /\ plugins' = (destination :> tree) @@ plugins
    /\ file_ops' = file_ops \o file_operations
    /\ pc' = "activate"
    /\ UNCHANGED error

\* shutil.copytree(src, dst) creates dst first and raises FileExistsError if
\* it is there already, having copied nothing.
CopyTree(destination, tree, file_operations) ==
    IF destination \in DOMAIN plugins
    THEN /\ Raise(Err("FileExistsError", "File exists", destination))
         /\ file_ops' = Append(file_ops, FileOp("copytree failed", destination, <<>>))
         /\ UNCHANGED plugins
    ELSE /\ plugins' = (destination :> tree) @@ plugins
         /\ file_ops' = file_ops \o file_operations
         /\ pc' = "activate"
         /\ UNCHANGED error

PrepareGamePlugin ==
    /\ pc = "prepare_game_plugin"
    /\ LET game_name == params["game_name"].s
           game_platform == params["game_platform"].s
           destination == GamePluginPath(game_name)
       IN  CopyTree(destination, GamePluginTree(game_name, game_platform),
                    << FileOp("copytree", destination, <<>>),
                       FileOp("read", destination, PluginFile),
                       FileOp("write", destination, PluginFile),
                       FileOp("move", destination, GameFile(<<>>)),
                       FileOp("read", destination, GameFile(game_name)),
                       FileOp("write", destination, GameFile(game_name)),
                       FileOp("read", destination, ApiFile),
                       FileOp("write", destination, ApiFile) >>)
    /\ UNCHANGED <<run, argv, handler, params, game, calls, helped, subprocess_calls, train_vars>>

(***************************************************************************)
(* prepare_game_agent_plugin(game_agent_name)                              *)
(***************************************************************************)
GameAgentPluginPath(game_agent_name) ==
    <<"Serpent">> \o game_agent_name \o <<"Game", "Agent", "Plugin">>

GameAgentPluginDefinition(contents, game_agent_name) ==
    Replace(Replace(contents, <<"Serpent", "Game", "Agent", "Plugin">>,
                    GameAgentPluginPath(game_agent_name)),
            <<"serpent_", "game", "_agent", ".py">>,
            <<"serpent_">> \o game_agent_name \o <<"_", "game", "_agent", ".py">>)

GameAgentContents(contents, game_agent_name) ==
    Replace(contents, <<"Serpent", "Game", "Agent">>,
            <<"Serpent">> \o game_agent_name \o <<"Game", "Agent">>)

GameAgentPluginTree(game_agent_name) ==
    (PluginFile :>
        GameAgentPluginDefinition(GameAgentPluginTemplate[PluginFile], game_agent_name))
    @@ (GameAgentFile(game_agent_name) :>
        GameAgentContents(GameAgentPluginTemplate[GameAgentFile(<<>>)], game_agent_name))

PrepareGameAgentPlugin ==
    /\ pc = "prepare_game_agent_plugin"
    /\ LET game_agent_name == params["game_agent_name"].s
           destination == GameAgentPluginPath(game_agent_name)
       IN  CopyTree(destination, GameAgentPluginTree(game_agent_name),
                    << FileOp("copytree", destination, <<>>),
                       FileOp("read", destination, PluginFile),
                       FileOp("write", destination, PluginFile),
                       FileOp("move", destination, GameAgentFile(<<>>)),
                       FileOp("read", destination, GameAgentFile(game_agent_name)),
                       FileOp("write", destination, GameAgentFile(game_agent_name)) >>)
    /\ UNCHANGED <<run, argv, handler, params, game, calls, helped, subprocess_calls, train_vars>>

(***************************************************************************)
(* generate(plugin_type), generate_game_plugin(),                          *)
(* generate_game_agent_plugin()                                            *)
(***************************************************************************)
\* What the user may type at the prompts.
NameInputs == { <<>>, <<"Foo">>, <<"PLATFORM">>, <<"My", "Quest">> }
PlatformInputs == game_platforms \cup { <<"linux">> }

Generate ==
    /\ pc = "generate"
    /\ LET plugin_type == params["plugin_type"].s
       IN  CASE plugin_type = <<"game">> ->
                   pc' = "generate_game_plugin" /\ UNCHANGED error
             [] plugin_type = <<"game_agent">> ->
                   pc' = "generate_game_agent_plugin" /\ UNCHANGED error
             [] OTHER ->
                   Raise(Err("Exception", "is not a valid plugin type...", plugin_type))
    /\ UNCHANGED <<run, argv, handler, params, game, calls, helped, scaffold_vars, train_vars>>

\* Up to the call of prepare_game_plugin.
GenerateGamePlugin ==
    /\ pc = "generate_game_plugin"
    /\ \E game_name \in NameInputs, game_platform \in PlatformInputs :
          CASE game_name = <<>> ->
                  /\ Raise(Err("Exception", "Invalid game name.", <<>>))
                  /\ UNCHANGED params
            [] game_name # <<>> /\ game_platform \notin game_platforms ->
                  /\ Raise(Err("Exception", "Invalid game platform.", <<>>))
                  /\ UNCHANGED params
            [] OTHER ->
                  /\ params' = [game_name |-> Str(game_name),
                                game_platform |-> Str(game_platform)]
                  /\ pc' = "prepare_game_plugin"
                  /\ UNCHANGED error
    /\ UNCHANGED <<run, argv, handler, game, calls, helped, scaffold_vars, train_vars>>

\* Up to the call of prepare_game_agent_plugin.
GenerateGameAgentPlugin ==
    /\ pc = "generate_game_agent_plugin"
    /\ \E game_agent_name \in NameInputs :
          IF game_agent_name = <<>>
          THEN /\ Raise(Err("Exception", "Invalid game agent name.", <<>>))
               /\ UNCHANGED params
          ELSE /\ params' = [game_agent_name |-> Str(game_agent_name)]
               /\ pc' = "prepare_game_agent_plugin"
               /\ UNCHANGED error
    /\ UNCHANGED <<run, argv, handler, game, calls, helped, scaffold_vars, train_vars>>

\* subprocess.call(shlex.split("serpent activate <plugin>")), after prepare_*
Activate ==
    /\ pc = "activate"
    /\ LET plugin == IF "game_agent_name" \in DOMAIN params
                     THEN GameAgentPluginPath(params["game_agent_name"].s)
                     ELSE GamePluginPath(params["game_name"].s)
       IN  subprocess_calls' = Append(subprocess_calls, <<<<"serpent">>, <<"activate">>, plugin>>)
    /\ pc' = "done"
    /\ UNCHANGED <<run, argv, handler, params, game, calls, error, helped, plugins, file_ops,
                 train_vars>>

(***************************************************************************)
(* train(training_type, *args) and the training it hands off to            *)
(***************************************************************************)
\* *args of train: the tokens after the training type.
TrainArgs == SubSeq(argv, 3, Len(argv))

\* A call on the training collaborator, and the SIGINT handler in place when
\* the call was entered.
TrainerCall(op, kwargs) == [op |-> op, kwargs |-> kwargs, sigint |-> sigint_handler]

\* The entry points of the collaborators that run the training.
TrainEntryPoints == {"executable_train", "train"}

Train ==
    /\ pc = "train"
    /\ LET training_type == params["training_type"].s
       IN  CASE training_type = <<"context">> ->
                   IF Len(TrainArgs) > Len(ParamNames("train_context"))
                   THEN /\ Raise(Err("TypeError", "positional arguments", <<"train_context">>))
                        /\ UNCHANGED params
                   ELSE /\ params' = Bind("train_context", TrainArgs) @@ params
                        /\ pc' = "train_context"
                        /\ UNCHANGED error
             [] training_type = <<"object">> ->
                   IF Len(TrainArgs) < Len(ParamNames("train_object"))
                   THEN /\ Raise(Err("TypeError", "positional arguments", <<"train_object">>))
                        /\ UNCHANGED params
                   ELSE /\ params' = Bind("train_object", TrainArgs) @@ params
                        /\ pc' = "train_object"
                        /\ UNCHANGED error
             [] OTHER ->
                   \* neither branch: train returns
                   pc' = "done" /\ UNCHANGED <<params, error>>
    /\ UNCHANGED <<run, argv, handler, game, calls, helped, scaffold_vars, train_vars>>

\* argv_is_true(arg)
argv_is_true(arg) == arg \in {BoolV(TRUE), Str(<<"True">>)}

\* [True, "True", False, "False"]
TrueFalseVocabulary == {BoolV(TRUE), Str(<<"True">>), BoolV(FALSE), Str(<<"False">>)}

ContextTrainKwargs(epochs, validate, autosave) ==
    [epochs |-> epochs, validate |-> BoolV(validate), autosave |-> BoolV(autosave)]

\* train_context with validate and autosave converted unchecked.
TrainContextUnchecked ==
    /\ pc = "train_context"
    /\ LET epochs == ParseInt(params["epochs"])
           kwargs == ContextTrainKwargs(epochs.val, argv_is_true(params["validate"]),
                                        argv_is_true(params["autosave"]))
       IN  IF ~epochs.ok
           THEN Raise(epochs.err) /\ UNCHANGED trainer
           ELSE /\ trainer' = Append(trainer, TrainerCall("executable_train", kwargs))
                /\ pc' = "training"
                /\ UNCHANGED error
    /\ UNCHANGED <<run, argv, handler, params, game, calls, helped, scaffold_vars,
                   sigint_handler>>

\* train_context(epochs=3, validate=True, autosave=False), up to the entry of
\* ContextClassifier.executable_train
TrainContext ==
    /\ pc = "train_context"
    /\ LET epochs == ParseInt(params["epochs"])
           kwargs == ContextTrainKwargs(epochs.val, argv_is_true(params["validate"]),
                                        argv_is_true(params["autosave"]))
       IN  CASE params["validate"] \notin TrueFalseVocabulary ->
                   /\ Raise(Err("ValueError", "'validate' should be True or False", <<>>))
                   /\ UNCHANGED trainer
             [] /\ params["validate"] \in TrueFalseVocabulary
                /\ params["autosave"] \notin TrueFalseVocabulary ->
                   /\ Raise(Err("ValueError", "'autosave' should be True or False", <<>>))
                   /\ UNCHANGED trainer
             [] /\ params["validate"] \in TrueFalseVocabulary
                /\ params["autosave"] \in TrueFalseVocabulary
                /\ ~epochs.ok ->
                   Raise(epochs.err) /\ UNCHANGED trainer
             [] OTHER ->
                   /\ trainer' = Append(trainer, TrainerCall("executable_train", kwargs))
                   /\ pc' = "training"
                   /\ UNCHANGED error
    /\ UNCHANGED <<run, argv, handler, params, game, calls, helped, scaffold_vars,
                   sigint_handler>>

\* classes of train_object: the tokens after name and algorithm.
TrainObjectClasses == SubSeq(TrainArgs, Len(ParamNames("train_object")) + 1, Len(TrainArgs))

\* train_object(name, algorithm, *classes), up to the entry of
\* object_recognizer.train: the recognizer is constructed, its on_interrupt
\* is made the handler of SIGINT, and train() is entered.
TrainObject ==
    /\ pc = "train_object"
    /\ LET constructed ==
               [op |-> "ObjectRecognizer",
                kwargs |-> [name |-> params["name"], backend |-> "luminoth",
                            algorithm |-> params["algorithm"],
                            classes |-> TrainObjectClasses],
                sigint |-> sigint_handler]
           entered == [op |-> "train", kwargs |-> <<>>, sigint |-> sigint_handler']
       IN  /\ sigint_handler' = "on_interrupt"
           /\ trainer' = trainer \o <<constructed, entered>>
    /\ pc' = "training"
    /\ UNCHANGED <<run, argv, handler, params, game, calls, error, helped, scaffold_vars>>

\* SIGINT arrives while the collaborator trains: the installed handler runs,
\* and the training goes on or ends as on_interrupt decides; with no handler
\* installed Python raises KeyboardInterrupt in the main thread.
Interrupt ==
    /\ pc = "training"
    /\ Len(trainer) < MaxCalls
    /\ IF sigint_handler = "on_interrupt"
       THEN /\ trainer' = Append(trainer, TrainerCall("on_interrupt", <<>>))
            /\ pc' \in {"training", "done"}
            /\ UNCHANGED error
       ELSE /\ Raise(Err("KeyboardInterrupt", "", <<>>))
            /\ UNCHANGED trainer
    /\ UNCHANGED <<run, argv, handler, params, game, calls, helped, scaffold_vars,
                   sigint_handler>>

\* The collaborator's entry point returns (or raises), and with it the handler.
TrainingReturns ==
    /\ pc = "training"
    /\ \E succeeds \in BOOLEAN :
          IF succeeds THEN pc' = "done" /\ UNCHANGED error
          ELSE Raise(Err("Exception", "training failed", <<>>))
    /\ UNCHANGED <<run, argv, handler, params, game, calls, helped, scaffold_vars, train_vars>>

(***************************************************************************)
(* The end of the process, and the next invocation of the program: a new   *)
(* process and a new command line.  Only the plugin directory is kept.     *)
(***************************************************************************)
ProcessExit ==
    /\ pc \in {"done", "failed"}
    /\ pc' = "exited"
    /\ handler' = "none"
    /\ params' = NoParams
    /\ game' = NoGame
    /\ calls' = <<>>
    /\ error' = NoError
    /\ helped' = FALSE
    /\ file_ops' = <<>>
    /\ subprocess_calls' = <<>>
    /\ argv' = <<>>
    /\ sigint_handler' = "default"
    /\ trainer' = <<>>
    /\ UNCHANGED <<run, plugins>>

NewInvocation ==
    /\ pc = "exited"
    /\ run < MaxRuns
    /\ run' = run + 1
    /\ argv' \in ArgvSet
    /\ pc' = "execute"
    /\ UNCHANGED <<handler, params, game, calls, error, helped, scaffold_vars, train_vars>>

\* A step of one invocation.
Step ==
    \/ Execute
    \/ OtherHandler
    \/ InitializeGame
    \/ LaunchLive
    \/ LaunchDryRun
    \/ Play
    \/ Record
    \/ Capture
    \/ Generate
    \/ GenerateGamePlugin
    \/ PrepareGamePlugin
    \/ GenerateGameAgentPlugin
    \/ PrepareGameAgentPlugin
    \/ Activate
    \/ Train
    \/ TrainContext
    \/ TrainObject
    \/ Interrupt
    \/ TrainingReturns
    \/ ProcessExit

Next == Step \/ NewInvocation

Spec == Init /\ [][Next]_vars

(***************************************************************************)
(* A further launch of the instance a command holds, as a caller of the    *)
(* lifecycle may make at any point after the command's own launch.  What   *)
(* it raises is caught by that caller and recorded.                        *)
(***************************************************************************)
FurtherLaunch ==
    /\ game # NoGame
    /\ pc \in {"play", "record", "capture", "done", "failed"}
    /\ Len(calls) >= 1
    /\ Len(calls) < MaxCalls
    /\ \E dry_run \in BOOLEAN, succeeds \in BOOLEAN :
          LET kwargs == IF dry_run THEN DryRunKwargs ELSE NoKwargs
              r == GameLaunch(game, kwargs, succeeds)
          IN  /\ game' = r.game
              /\ calls' = Append(calls, Call("launch", kwargs, game, r))
    /\ UNCHANGED <<run, argv, pc, handler, params, error, helped, scaffold_vars, train_vars>>

\* One invocation, with further launches of its instance.
NextLifecycle == Step \/ FurtherLaunch

SpecLifecycle == Init /\ [][NextLifecycle]_vars

(***************************************************************************)
(* What the error taxonomy of the design names, in terms of what the code  *)
(* raises.                                                                 *)
(***************************************************************************)
UnknownCommand(token) == Err("Exception", "is not a valid Serpent command.", token)
PluginNotFound(game_name) ==
    Err("Exception", "Game wasn't found. Make sure the plugin is installed.", game_name)
InvalidCaptureType == Err("Exception", "Invalid capture command.", <<>>)

\* The play calls among the calls made on the game instance.
PlayCalls == { i \in 1..Len(calls) : calls[i].op = "play" }
LaunchCalls == { i \in 1..Len(calls) : calls[i].op = "launch" }

\* No handler has run and nothing outside the process was touched.
NothingDone ==
    /\ game = NoGame
    /\ calls = <<>>
    /\ file_ops = <<>>
    /\ subprocess_calls = <<>>
    /\ sigint_handler = "default"
    /\ trainer = <<>>

(***************************************************************************)
(* C1.  A command name that is not in valid_commands (and is no help       *)
(* flag) makes execute() fail with the error that names the token, and no  *)
(* handler is called: no game is resolved, launched or played and nothing  *)
(* is generated.                                                           *)
(***************************************************************************)
UnknownCommandGiven ==
    /\ argv # <<>>
    /\ argv[1] \notin valid_commands \cup HelpFlags

C1_UnknownCommandFails ==
    UnknownCommandGiven =>
        /\ pc \in {"execute", "failed"}
        /\ pc = "failed" => error = UnknownCommand(argv[1])
        /\ handler = "none"
        /\ NothingDone
        /\ ~helped

C1_Witness == UnknownCommandGiven /\ pc = "failed" /\ argv[1] = <<"plays">>

(***************************************************************************)
(* C2.  In play, record and capture every play call on the game instance   *)
(* directly follows a launch(dry_run=True) on it that returned normally;   *)
(* the launch command makes one live launch and no play call.              *)
(***************************************************************************)
C2_PlayFollowsDryRunLaunch ==
    /\ \A i \in PlayCalls :
          /\ handler \in {"play", "record", "capture"}
          /\ i > 1
          /\ calls[i - 1].op = "launch"
          /\ IsDryRun(calls[i - 1].kwargs)
          /\ calls[i - 1].ok
    /\ handler = "launch" =>
          /\ PlayCalls = {}
          /\ \A i \in LaunchCalls : ~IsDryRun(calls[i].kwargs)
          /\ pc = "done" => Len(calls) = 1

C2_Witness ==
    /\ handler = "record"
    /\ pc = "done"
    /\ Len(calls) = 2
    /\ calls[2].op = "play"
    /\ calls[2].ok

(***************************************************************************)
(* C3.  For a game name whose class Serpent<game_name>Game is not in the   *)
(* registry, initialize_game fails with the not-found error carrying the   *)
(* name, no instance is constructed, and the command that called it makes  *)
(* no launch and no play call.                                             *)
(***************************************************************************)
GameNotInstalled ==
    /\ handler \in GameHandlers
    /\ ~DiscoverGame(GameClassName(params["game_name"].s))

C3_UnknownGameFails ==
    GameNotInstalled =>
        /\ pc \in {"initialize_game", "failed"}
        /\ pc = "failed" => error = PluginNotFound(params["game_name"].s)
        /\ NothingDone

C3_Witness == GameNotInstalled /\ pc = "failed" /\ handler = "capture"

(***************************************************************************)
(* C4.  Whenever a game instance was constructed, it has been terminated   *)
(* when the invocation ends, normally or by a failure.                     *)
(***************************************************************************)
C4_TerminatedAtEnd ==
    (pc \in {"done", "failed"} /\ game # NoGame) =>
        \/ game.lifecycle_state = "Terminated"
        \/ \E i \in 1..Len(calls) : calls[i].op = "terminate"

(***************************************************************************)
(* C5.  The launch(dry_run=True) that play, record and capture make on the *)
(* instance initialize_game returned is made in Uninitialized and, when it *)
(* succeeds, leaves the instance in LaunchedDryRun; at most one launch of  *)
(* an instance succeeds; a launch from any other state fails with          *)
(* InvalidLifecycleTransition and leaves the state; no call moves the      *)
(* state backwards, and Playing is entered only from a Launched state.     *)
(***************************************************************************)
Rank(state) ==
    CASE state = "Uninitialized" -> 0
      [] state \in Launched -> 1
      [] state = "Playing" -> 2
      [] state = "Terminated" -> 3

RecordEnded ==
    /\ handler = "record"
    /\ pc \in {"done", "failed"}
    /\ Len(calls) >= 1
    /\ calls[1].ok

\* The first of the two parameters whose argument is no integer literal.
OffendingField ==
    IF params["frame_count"].tag = "str" /\ ~IsIntLiteral(params["frame_count"].s)
    THEN "frame_count"
    ELSE IF params["frame_spacing"].tag = "str" /\ ~IsIntLiteral(params["frame_spacing"].s)
         THEN "frame_spacing"
         ELSE "none"

\* The integer an argument stands for: its default, or its literal's value.
GivenInt(v) == IF v.tag = "int" THEN v.n ELSE IntLiteralValue(v.s)

RecordPassesIntegers ==
    /\ Cardinality(PlayCalls) = 1
    /\ calls[2].op = "play"
    /\ calls[2].kwargs["frame_count"] = IntV(GivenInt(params["frame_count"]))
    /\ calls[2].kwargs["frame_spacing"] = IntV(GivenInt(params["frame_spacing"]))

C6_RecordArguments ==
    RecordEnded =>
        IF OffendingField = "none"
        THEN RecordPassesIntegers
        ELSE /\ pc = "failed"
             /\ PlayCalls = {}
             /\ error.type \in {"Exception", "ValueError"}
             /\ error.arg = <<OffendingField>>

(***************************************************************************)
(* C7.  For a capture_type that is none of frame, context and region, the  *)
(* capture command fails with the invalid-capture error and makes no play  *)
(* call, whatever its other arguments.                                     *)
(***************************************************************************)
InvalidCaptureGiven ==
    /\ handler = "capture"
    /\ params["capture_type"].s \notin { <<"frame">>, <<"context">>, <<"region">> }

C7_Original ==
    InvalidCaptureGiven =>
        /\ PlayCalls = {}
        /\ pc \in {"done", "failed"} => (pc = "failed" /\ error = InvalidCaptureType)

\* As amended: no play call is ever made and the command fails; the failure
\* is the invalid-capture error whenever the game was found and its dry-run
\* launch returned, and otherwise the failure of that earlier step.
C7_InvalidCaptureNeverPlays ==
    InvalidCaptureGiven =>
        /\ PlayCalls = {}
        /\ pc # "done"
        /\ pc = "failed" =>
              \/ calls = <<>> /\ error = PluginNotFound(params["game_name"].s)
              \/ Len(calls) = 1 /\ ~calls[1].ok /\ error = calls[1].err
              \/ Len(calls) = 1 /\ calls[1].ok /\ error = InvalidCaptureType

C7_Witness ==
    /\ InvalidCaptureGiven
    /\ pc = "failed"
    /\ error = InvalidCaptureType
    /\ params["interval"].tag = "str"

(***************************************************************************)
(* C8.  A capture command that succeeds has made exactly one play call,    *)
(* of the variant of its capture_type: frame with the interval; context    *)
(* with the interval and extra and extra_2 as context and screen_region,   *)
(* unchanged; region with the interval and extra as region.  The interval  *)
(* is 1 when omitted.  The context type needs both extra and extra_2: no   *)
(* play call is made for it when one is missing.                           *)
(***************************************************************************)
\* The float an interval argument stands for: its default, or its literal's.
GivenFloat(v) == IF v.tag = "int" THEN FloatV(v.n, 0) ELSE FloatLiteralValue(v.s)

CaptureVariantMatches(kwargs) ==
    LET capture_type == params["capture_type"].s
    IN  /\ kwargs["interval"] = GivenFloat(params["interval"])
        /\ capture_type = <<"frame">> =>
              /\ DOMAIN kwargs = {"frame_handler", "interval"}
              /\ kwargs["frame_handler"] = Str(<<"COLLECT_FRAMES">>)
        /\ capture_type = <<"context">> =>
              /\ DOMAIN kwargs = {"frame_handler", "interval", "context", "screen_region"}
              /\ kwargs["frame_handler"] = Str(<<"COLLECT_FRAMES_FOR_CONTEXT">>)
              /\ kwargs["context"] = params["extra"]
              /\ kwargs["screen_region"] = params["extra_2"]
        /\ capture_type = <<"region">> =>
              /\ DOMAIN kwargs = {"frame_handler", "interval", "region"}
              /\ kwargs["frame_handler"] = Str(<<"COLLECT_FRAME_REGIONS">>)
              /\ kwargs["region"] = params["extra"]

ContextExtrasMissing ==
    /\ params["capture_type"].s = <<"context">>
    /\ (params["extra"] = None \/ params["extra_2"] = None)

C8_CaptureVariants ==
    handler = "capture" =>
        /\ pc = "done" =>
              /\ Cardinality(PlayCalls) = 1
              /\ calls[Len(calls)].op = "play"
              /\ CaptureVariantMatches(calls[Len(calls)].kwargs)
        /\ ContextExtrasMissing => PlayCalls = {}

(***************************************************************************)
(* C9.  The game file generated for platform p holds none of the lines of  *)
(* the other two platforms and every line of p, and its PLATFORM           *)
(* placeholder has become p.                                               *)
(***************************************************************************)
\* The lines of the template that belong to each platform.
LinesOf(game_platform) ==
    CASE game_platform = <<"steam">> -> { AppIdLine, AppArgsLine }
      [] game_platform = <<"executable">> -> { ExecutablePathLine }
      [] game_platform = <<"web_browser">> -> { ImportWebBrowserLine, UrlLine, BrowserLine }

\* prepare_game_plugin has just returned.
GamePluginPrepared == pc = "activate" /\ "game_platform" \in DOMAIN params

GeneratedGameFile ==
    plugins[GamePluginPath(params["game_name"].s)][GameFile(params["game_name"].s)]

C9_PlatformLines ==
    GamePluginPrepared =>
        LET p == params["game_platform"].s
        IN  /\ \A q \in game_platforms \ {p} :
                  \A line \in LinesOf(q) : ~Contains(GeneratedGameFile, line)
            /\ \A line \in LinesOf(p) : Contains(GeneratedGameFile, line)
            /\ Contains(GeneratedGameFile, PlatformLine(p))
            /\ ~Contains(GeneratedGameFile, <<"PLATFORM">>)

C9_Witness ==
    /\ GamePluginPrepared
    /\ params["game_platform"].s = <<"steam">>
    /\ params["game_name"].s = <<"Foo">>
    /\ Contains(GeneratedGameFile, AppIdLine)

(***************************************************************************)
(* C10.  Generating a plugin whose destination directory exists fails with *)
(* FileExistsError at the copy, before any file is read, written, moved or *)
(* added: the plugin directory is left as it was, and the activate         *)
(* subprocess is not run.                                                  *)
(***************************************************************************)
\* prepare_* is about to run and its destination is there already.
DestinationExists ==
    \/ /\ pc = "prepare_game_plugin"
       /\ GamePluginPath(params["game_name"].s) \in DOMAIN plugins
    \/ /\ pc = "prepare_game_agent_plugin"
       /\ GameAgentPluginPath(params["game_agent_name"].s) \in DOMAIN plugins

ScaffoldConflict == pc = "failed" /\ error.type = "FileExistsError"

C10_ExistingDestinationUntouched ==
    [][ /\ DestinationExists =>
            /\ ScaffoldConflict'
            /\ error'.arg \in DOMAIN plugins
            /\ plugins' = plugins
            /\ \A i \in 1..Len(file_ops') : file_ops'[i].op = "copytree failed"
            /\ subprocess_calls' = <<>>
        /\ ScaffoldConflict => (plugins' = plugins /\ pc' = "exited")
      ]_vars

C10_Witness ==
    /\ ScaffoldConflict
    /\ handler = "generate"
    /\ error.arg = GamePluginPath(<<"Foo">>)
    /\ file_ops # <<>>

(***************************************************************************)
(* C11.  For every training hand-off the train command starts (context or  *)
(* object), the handler forwarding SIGINT to the collaborator's            *)
(* on_interrupt is installed before the collaborator's training entry      *)
(* point is entered, so an interrupt arriving while the training is in     *)
(* progress reaches on_interrupt: every entry point was entered with the   *)
(* handler in place, the handler is in place while the training runs, and  *)
(* no interrupt ends the invocation as a KeyboardInterrupt.                *)
(***************************************************************************)
TrainingInProgress == pc = "training"

EnteredWithHandler ==
    \A i \in 1..Len(trainer) :
        trainer[i].op \in TrainEntryPoints => trainer[i].sigint = "on_interrupt"

C11_InterruptReachesOnInterrupt ==
    /\ EnteredWithHandler
    /\ TrainingInProgress => sigint_handler = "on_interrupt"
    /\ error.type # "KeyboardInterrupt"

\* The same for the object hand-off alone.
ObjectInterruptReachesOnInterrupt ==
    (handler = "train" /\ "name" \in DOMAIN params) => C11_InterruptReachesOnInterrupt

ObjectInterrupted ==
    /\ handler = "train" /\ "name" \in DOMAIN params
    /\ \E i \in 1..Len(trainer) : trainer[i].op = "on_interrupt"

(***************************************************************************)
(* C12.  In train context, a validate or autosave argument outside         *)
(* {"True", "False", True, False} fails with a ValueError that names the   *)
(* argument, before the training collaborator is invoked; a value inside   *)
(* the vocabulary reaches the collaborator as true exactly when it is      *)
(* "True" or True; and an epochs argument that is no integer fails with    *)
(* the ValueError of the conversion, carrying the argument, never with a   *)
(* TypeError, and before the collaborator is invoked.                      *)
(***************************************************************************)
\* train_context was entered and has run.
ContextTrainRan ==
    /\ handler = "train"
    /\ "epochs" \in DOMAIN params
    /\ pc # "train_context"

InVocabulary(v) == v \in {Str(<<"True">>), Str(<<"False">>), BoolV(TRUE), BoolV(FALSE)}

MeansTrue(v) == v = Str(<<"True">>) \/ v = BoolV(TRUE)

IsInteger(v) == v.tag = "int" \/ (v.tag = "str" /\ IsIntLiteral(v.s))

FailedDescriptively(field) ==
    /\ pc = "failed"
    /\ error.type = "ValueError"
    /\ error.msg = (IF field = "validate" THEN "'validate' should be True or False"
                    ELSE "'autosave' should be True or False")
    /\ trainer = <<>>

C12_TrainContextArguments ==
    ContextTrainRan =>
        CASE ~InVocabulary(params["validate"]) -> FailedDescriptively("validate")
          [] InVocabulary(params["validate"]) /\ ~InVocabulary(params["autosave"]) ->
                FailedDescriptively("autosave")
          [] /\ InVocabulary(params["validate"])
             /\ InVocabulary(params["autosave"])
             /\ ~IsInteger(params["epochs"]) ->
                /\ pc = "failed"
                /\ error.type = "ValueError"
                /\ error.arg = params["epochs"].s
                /\ trainer = <<>>
          [] OTHER ->
                /\ Len(trainer) >= 1
                /\ trainer[1].op = "executable_train"
                /\ trainer[1].kwargs["validate"] = BoolV(MeansTrue(params["validate"]))
                /\ trainer[1].kwargs["autosave"] = BoolV(MeansTrue(params["autosave"]))
                /\ trainer[1].kwargs["epochs"].tag = "int"

C12_Witness ==
    /\ ContextTrainRan
    /\ params["validate"] = Str(<<"False">>)
    /\ params["autosave"] = Str(<<"true">>)
    /\ FailedDescriptively("autosave")

(***************************************************************************)
(* C13.  For every non-empty entity name, scaffold generation replaces     *)
(* each placeholder (SerpentGamePlugin, serpent_game.py, SerpentGame,      *)
(* MyGameAPI, SerpentGameAgentPlugin, serpent_game_agent.py,               *)
(* SerpentGameAgent) by its derived concrete name, and the concrete name   *)
(* appears verbatim in the generated files: no later rewriting step (the   *)
(* PLATFORM rewrite, the stripping of platform lines, a later replacement) *)
(* alters text an earlier substitution inserted, also for a name that      *)
(* contains PLATFORM or a placeholder.                                     *)
(***************************************************************************)
\* prepare_game_agent_plugin has just returned.
GameAgentPluginPrepared == pc = "activate" /\ "game_agent_name" \in DOMAIN params

GeneratedGamePlugin == plugins[GamePluginPath(params["game_name"].s)]

GeneratedGameAgentPlugin == plugins[GameAgentPluginPath(params["game_agent_name"].s)]

GameNamesVerbatim ==
    LET game_name == params["game_name"].s
    IN  /\ Contains(GeneratedGamePlugin[PluginFile],
                    <<"class ", "Serpent">> \o game_name \o <<"Game", "Plugin">>)
        /\ Contains(GeneratedGamePlugin[PluginFile],
                    <<"serpent_">> \o game_name \o <<"_", "game", ".py">>)
        /\ Contains(GeneratedGamePlugin[GameFile(game_name)],
                    <<"class ", "Serpent">> \o game_name \o <<"Game">>)
        /\ Contains(GeneratedGamePlugin[GameFile(game_name)],
                    <<"from .api.api import ">> \o game_name \o <<"API">>)
        /\ Contains(GeneratedGamePlugin[ApiFile],
                    <<"class ">> \o game_name \o <<"API">>)

GameAgentNamesVerbatim ==
    LET game_agent_name == params["game_agent_name"].s
    IN  /\ Contains(GeneratedGameAgentPlugin[PluginFile],
                    <<"class ", "Serpent">> \o game_agent_name \o <<"Game", "Agent", "Plugin">>)
        /\ Contains(GeneratedGameAgentPlugin[PluginFile],
                    <<"serpent_">> \o game_agent_name \o <<"_", "game", "_agent", ".py">>)
        /\ Contains(GeneratedGameAgentPlugin[GameAgentFile(game_agent_name)],
                    <<"class ", "Serpent">> \o game_agent_name \o <<"Game", "Agent">>)

C13_ConcreteNamesVerbatim ==
    /\ GamePluginPrepared => GameNamesVerbatim
    /\ GameAgentPluginPrepared => GameAgentNamesVerbatim

\* The same for names that contain no PLATFORM.
NamesWithoutPlatformVerbatim ==
    /\ (GamePluginPrepared /\ ~Contains(params["game_name"].s, <<"PLATFORM">>))
            => GameNamesVerbatim
    /\ GameAgentPluginPrepared => GameAgentNamesVerbatim

(***************************************************************************)
(* C14.  In the play command, when the game is registered but the game     *)
(* agent name is not in the GameAgent registry, the command fails with     *)
(* the agent not-found error and never issues the play call; the lookup    *)
(* comes after the dry-run launch, so the failure occurs with the one      *)
(* dry-run launch made and the game in the LaunchedDryRun state.  The      *)
(* record command looks no agent up: it never fails with the agent         *)
(* not-found error and issues its play call with the agent name it was     *)
(* given, installed or not.                                                *)
(***************************************************************************)
GameAgentNotFound(game_agent_name) ==
    Err("Exception", "Game Agent wasn't found. Make sure the plugin is installed.",
        game_agent_name)

AgentAbsent ==
    /\ handler = "play"
    /\ params["game_agent_name"].s \notin InstalledGameAgents

\* The dry-run launch was made, and returned.
DryRunLaunched ==
    /\ Len(calls) >= 1
    /\ calls[1].op = "launch"
    /\ IsDryRun(calls[1].kwargs)
    /\ calls[1].ok

Ended == pc \in {"done", "failed"}

C14_AgentLookupAfterLaunch ==
    /\ AgentAbsent =>
          /\ PlayCalls = {}
          /\ pc # "done"
          /\ (Ended /\ DryRunLaunched) =>
                error = GameAgentNotFound(params["game_agent_name"].s)
    /\ error.msg = GameAgentNotFound(<<>>).msg =>
          /\ AgentAbsent
          /\ pc = "failed"
          /\ DryRunLaunched
          /\ Len(calls) = 1
          /\ game.lifecycle_state = "LaunchedDryRun"
    /\ (handler = "record" /\ Ended /\ DryRunLaunched /\ OffendingField = "none") =>
          /\ Len(calls) = 2
          /\ calls[2].op = "play"
          /\ calls[2].kwargs["game_agent_class_name"] = params["game_agent_name"]

C14_Witness ==
    /\ AgentAbsent
    /\ error = GameAgentNotFound(params["game_agent_name"].s)
    /\ game.lifecycle_state = "LaunchedDryRun"
    /\ PlayCalls = {}
=============================================================================
